---- MODULE Spec2Model ----
(***************************************************************************)
(* The LMDB collection backend of ModSecurity                              *)
(* (src/collection/backend/lmdb.cc): one table of (key, value) records     *)
(* that allows several values per key (MDB_DUPSORT), and the operations of *)
(* class LMDB on it.  Every operation runs in one transaction of its own   *)
(* and is modelled as one action; the engine calls it makes are recorded   *)
(* in its trace.  For calls made at the same time by several callers the   *)
(* operations are also given engine call by engine call (SpecConc).        *)
(***************************************************************************)
EXTENDS Integers, Sequences, FiniteSets, TLC

VARIABLES valid, isOpen, table, last, calls, commits

vars == <<valid, isOpen, table, last, calls, commits>>

(***************************************************************************)
(* Bounds of the model.                                                    *)
(***************************************************************************)
\* the table never holds more than MaxRecords records
MaxRecords == 3

(***************************************************************************)
(* Byte strings.  Byte 0 is NUL.  Keys and values are length-delimited     *)
(* byte strings (std::string); one key is a proper prefix of the other,    *)
(* and the values are bytes that also occur in keys.                       *)
(***************************************************************************)
NUL == 0
Keys == {<<1>>, <<1, 2>>}
Values == {<<1>>, <<2>>}
Records == [key : Keys, value : Values]
\* a third value, for the calls on a key that holds several values
MoreValues == Values \cup {<<3>>}

(***************************************************************************)
(* Status codes of the engine calls.                                       *)
(***************************************************************************)
MDB_SUCCESS == 0
MDB_NOTFOUND == -30798
ENOMEM == 12
EINVAL == 22
EACCES == 13
ENOSPC == 28
\* what txn_begin returns when the environment is not valid
TXN_INVALID == -1

(***************************************************************************)
(* The engine's comparison (keys, and values within one key): memcmp over  *)
(* the common length, then the shorter string first.                       *)
(***************************************************************************)
RECURSIVE BytesLess(_, _)
BytesLess(a, b) ==
    IF a = <<>> THEN b # <<>>
    ELSE IF b = <<>> THEN FALSE
    ELSE IF Head(a) # Head(b) THEN Head(a) < Head(b)
    ELSE BytesLess(Tail(a), Tail(b))

RecordLess(r, s) ==
    \/ BytesLess(r.key, s.key)
    \/ r.key = s.key /\ BytesLess(r.value, s.value)

\* the records of a table in the order an MDB_NEXT cursor visits them
RECURSIVE CursorOrder(_)
CursorOrder(tbl) ==
    IF tbl = {} THEN <<>>
    ELSE LET first == CHOOSE r \in tbl : \A s \in tbl \ {r} : RecordLess(r, s)
         IN <<first>> \o CursorOrder(tbl \ {first})

\* the values of key k, in the engine's order
Dups(tbl, k) == SelectSeq(CursorOrder(tbl), LAMBDA r : r.key = k)

(***************************************************************************)
(* string2val: the MDB_val view of a string, and the string copied back    *)
(* out of an MDB_val with its size.                                        *)
(***************************************************************************)
string2val(str) == [mv_size |-> Len(str), mv_data |-> str]

val2string(val) == SubSeq(val.mv_data, 1, val.mv_size)

(***************************************************************************)
(* The engine calls, on the working copy of the table a transaction holds. *)
(* f names the engine step that is made to fail in this call ("none" for   *)
(* no failure).                                                            *)
(***************************************************************************)
\* mdb_get: the first value of the key's duplicate set
mdb_get(tbl, mdb_key, f) ==
    LET d == Dups(tbl, val2string(mdb_key)) IN
    IF f = "get" THEN [rc |-> EINVAL, data |-> string2val(<<>>)]
    ELSE IF d = <<>> THEN [rc |-> MDB_NOTFOUND, data |-> string2val(<<>>)]
    ELSE [rc |-> MDB_SUCCESS, data |-> string2val(d[1].value)]

\* mdb_del as it works with no data argument: every value of the key goes
mdb_del_all_dups(tbl, mdb_key, mdb_data, f) ==
    IF f = "del" THEN [rc |-> EACCES, table |-> tbl]
    ELSE IF Dups(tbl, val2string(mdb_key)) = <<>>
    THEN [rc |-> MDB_NOTFOUND, table |-> tbl]
    ELSE [rc |-> MDB_SUCCESS,
          table |-> {r \in tbl : r.key # val2string(mdb_key)}]

\* mdb_del with a data argument on a DUPSORT table: that one record only
mdb_del(tbl, mdb_key, mdb_data, f) ==
    LET r == [key |-> val2string(mdb_key), value |-> val2string(mdb_data)] IN
    IF f = "del" THEN [rc |-> EACCES, table |-> tbl]
    ELSE IF r \notin tbl THEN [rc |-> MDB_NOTFOUND, table |-> tbl]
    ELSE [rc |-> MDB_SUCCESS, table |-> tbl \ {r}]

\* mdb_put with flags 0 on a DUPSORT table: adds the record to the key's
\* duplicate set; a record already there is left as it is
mdb_put(tbl, mdb_key, mdb_data, f) ==
    LET r == [key |-> val2string(mdb_key), value |-> val2string(mdb_data)] IN
    IF f = "put" THEN [rc |-> EINVAL, table |-> tbl]
    ELSE [rc |-> MDB_SUCCESS, table |-> tbl \cup {r}]

mdb_txn_commit(f) == IF f = "commit" THEN ENOSPC ELSE MDB_SUCCESS

mdb_txn_begin(f) == IF f = "begin" THEN ENOMEM ELSE MDB_SUCCESS

(***************************************************************************)
(* LMDB::txn_begin: no engine transaction is asked for when the            *)
(* environment is not valid.                                               *)
(***************************************************************************)
txn_begin(isValid, f) ==
    IF isValid
    THEN [rc |-> mdb_txn_begin(f), trace |-> <<"mdb_txn_begin">>]
    ELSE [rc |-> TXN_INVALID, trace |-> <<>>]

\* store with the key and the data handed to mdb_put in each other's place
store_swapped(tbl, isValid, key, value, f) ==
    LET b == txn_begin(isValid, f) IN
    IF b.rc # 0 THEN [table |-> tbl, rc |-> b.rc, trace |-> b.trace]
    ELSE
    LET p == mdb_put(tbl, string2val(value), string2val(key), f) IN
    IF p.rc # 0
    THEN [table |-> tbl, rc |-> p.rc,
          trace |-> b.trace \o <<"mdb_put", "mdb_txn_abort">>]
    ELSE
    LET c == mdb_txn_commit(f) IN
    [table |-> IF c = 0 THEN p.table ELSE tbl, rc |-> c,
     trace |-> b.trace \o <<"mdb_put", "mdb_txn_commit">>]

\* store on a table that keeps one value per key: the put replaces the
\* values the key holds
store_replacing(tbl, isValid, key, value, f) ==
    LET b == txn_begin(isValid, f) IN
    IF b.rc # 0 THEN [table |-> tbl, rc |-> b.rc, trace |-> b.trace]
    ELSE
    LET p == mdb_put({r \in tbl : r.key # key},
                     string2val(key), string2val(value), f)
    IN
    IF p.rc # 0
    THEN [table |-> tbl, rc |-> p.rc,
          trace |-> b.trace \o <<"mdb_put", "mdb_txn_abort">>]
    ELSE
    LET c == mdb_txn_commit(f) IN
    [table |-> IF c = 0 THEN p.table ELSE tbl, rc |-> c,
     trace |-> b.trace \o <<"mdb_put", "mdb_txn_commit">>]

(***************************************************************************)
(* LMDB::store: begin, put, commit.  Each handler yields the table that is *)
(* committed when it returns, its last status rc, the engine calls it made *)
(* and what it returns.                                                    *)
(***************************************************************************)
store(tbl, isValid, key, value, f) ==
    LET b == txn_begin(isValid, f) IN
    IF b.rc # 0 THEN [table |-> tbl, rc |-> b.rc, trace |-> b.trace]
    ELSE
    LET p == mdb_put(tbl, string2val(key), string2val(value), f) IN
    IF p.rc # 0
    THEN [table |-> tbl, rc |-> p.rc,
          trace |-> b.trace \o <<"mdb_put", "mdb_txn_abort">>]
    ELSE
    LET c == mdb_txn_commit(f) IN
    [table |-> IF c = 0 THEN p.table ELSE tbl, rc |-> c,
     trace |-> b.trace \o <<"mdb_put", "mdb_txn_commit">>]

\* resolveFirst leaving through end_txn when the get fails, its
\* transaction still open
resolveFirst_no_abort(tbl, isValid, var, f) ==
    LET b == txn_begin(isValid, f) IN
    IF b.rc # 0 THEN [ret |-> <<>>, rc |-> b.rc, trace |-> b.trace]
    ELSE
    LET g == mdb_get(tbl, string2val(var), f) IN
    IF g.rc # 0
    THEN [ret |-> <<>>, rc |-> g.rc, trace |-> b.trace \o <<"mdb_get">>]
    ELSE [ret |-> <<val2string(g.data)>>, rc |-> g.rc,
          trace |-> b.trace \o <<"mdb_get", "mdb_txn_abort">>]

(***************************************************************************)
(* LMDB::resolveFirst: begin read-only, get, copy the value, abort.  The   *)
(* returned unique_ptr is a sequence of no value (NULL) or one.            *)
(***************************************************************************)
resolveFirst(tbl, isValid, var, f) ==
    LET b == txn_begin(isValid, f) IN
    IF b.rc # 0 THEN [ret |-> <<>>, rc |-> b.rc, trace |-> b.trace]
    ELSE
    LET g == mdb_get(tbl, string2val(var), f) IN
    [ret |-> IF g.rc # 0 THEN <<>> ELSE <<val2string(g.data)>>,
     rc |-> g.rc,
     trace |-> b.trace \o <<"mdb_get", "mdb_txn_abort">>]

(***************************************************************************)
(* The value storeOrUpdateFirst returns on every path (line 232).          *)
(***************************************************************************)
storeOrUpdateFirst_return(rc) == TRUE

(***************************************************************************)
(* LMDB::storeOrUpdateFirst: begin, get, del of the record found (only     *)
(* when the get succeeded), put, commit.                                   *)
(***************************************************************************)
storeOrUpdateFirst(tbl, isValid, key, value, f) ==
    LET b == txn_begin(isValid, f) IN
    IF b.rc # 0
    THEN [table |-> tbl, rc |-> b.rc, trace |-> b.trace,
          ret |-> storeOrUpdateFirst_return(b.rc)]
    ELSE
    LET g == mdb_get(tbl, string2val(key), f)
        d == IF g.rc = 0 THEN mdb_del(tbl, string2val(key), g.data, f)
             ELSE [rc |-> g.rc, table |-> tbl]
        t1 == b.trace \o <<"mdb_get">>
                \o (IF g.rc = 0 THEN <<"mdb_del">> ELSE <<>>)
    IN
    IF g.rc = 0 /\ d.rc # 0
    THEN [table |-> tbl, rc |-> d.rc, trace |-> t1 \o <<"mdb_txn_abort">>,
          ret |-> storeOrUpdateFirst_return(d.rc)]
    ELSE
    LET p == mdb_put(d.table, string2val(key), string2val(value), f) IN
    IF p.rc # 0
    THEN [table |-> tbl, rc |-> p.rc,
          trace |-> t1 \o <<"mdb_put", "mdb_txn_abort">>,
          ret |-> storeOrUpdateFirst_return(p.rc)]
    ELSE
    LET c == mdb_txn_commit(f) IN
    [table |-> IF c = 0 THEN p.table ELSE tbl, rc |-> c,
     trace |-> t1 \o <<"mdb_put", "mdb_txn_commit">>,
     ret |-> storeOrUpdateFirst_return(c)]

\* updateFirst returning true on every path, as storeOrUpdateFirst does
updateFirst_return_true(rc) == TRUE

(***************************************************************************)
(* The value updateFirst returns (line 357).                               *)
(***************************************************************************)
updateFirst_return(rc) == rc = 0

(***************************************************************************)
(* LMDB::updateFirst: begin, get (any failure, not-found included, ends    *)
(* the call), del of the record found, put, commit.                        *)
(***************************************************************************)
updateFirst(tbl, isValid, key, value, f) ==
    LET b == txn_begin(isValid, f) IN
    IF b.rc # 0
    THEN [table |-> tbl, rc |-> b.rc, trace |-> b.trace,
          ret |-> updateFirst_return(b.rc)]
    ELSE
    LET g == mdb_get(tbl, string2val(key), f) IN
    IF g.rc # 0
    THEN [table |-> tbl, rc |-> g.rc,
          trace |-> b.trace \o <<"mdb_get", "mdb_txn_abort">>,
          ret |-> updateFirst_return(g.rc)]
    ELSE
    LET d == mdb_del(tbl, string2val(key), g.data, f) IN
    IF d.rc # 0
    THEN [table |-> tbl, rc |-> d.rc,
          trace |-> b.trace \o <<"mdb_get", "mdb_del", "mdb_txn_abort">>,
          ret |-> updateFirst_return(d.rc)]
    ELSE
    LET p == mdb_put(d.table, string2val(key), string2val(value), f)
        t3 == b.trace \o <<"mdb_get", "mdb_del", "mdb_put">>
    IN
    IF p.rc # 0
    THEN [table |-> tbl, rc |-> p.rc, trace |-> t3 \o <<"mdb_txn_abort">>,
          ret |-> updateFirst_return(p.rc)]
    ELSE
    LET c == mdb_txn_commit(f) IN
    [table |-> IF c = 0 THEN p.table ELSE tbl, rc |-> c,
     trace |-> t3 \o <<"mdb_txn_commit">>,
     ret |-> updateFirst_return(c)]

\* del that aborts its transaction where it should commit it
del_aborting(tbl, isValid, key, f) ==
    LET b == txn_begin(isValid, f) IN
    IF b.rc # 0 THEN [table |-> tbl, rc |-> b.rc, trace |-> b.trace]
    ELSE
    LET g == mdb_get(tbl, string2val(key), f) IN
    IF g.rc # 0
    THEN [table |-> tbl, rc |-> g.rc,
          trace |-> b.trace \o <<"mdb_get", "mdb_txn_abort">>]
    ELSE
    LET d == mdb_del(tbl, string2val(key), g.data, f) IN
    [table |-> tbl, rc |-> d.rc,
     trace |-> b.trace \o <<"mdb_get", "mdb_del", "mdb_txn_abort">>]

\* del leaving through end_txn when the lookup fails, its transaction
\* still open
del_no_abort(tbl, isValid, key, f) ==
    LET b == txn_begin(isValid, f) IN
    IF b.rc # 0 THEN [table |-> tbl, rc |-> b.rc, trace |-> b.trace]
    ELSE
    LET g == mdb_get(tbl, string2val(key), f) IN
    IF g.rc # 0
    THEN [table |-> tbl, rc |-> g.rc, trace |-> b.trace \o <<"mdb_get">>]
    ELSE
    LET d == mdb_del(tbl, string2val(key), g.data, f) IN
    IF d.rc # 0
    THEN [table |-> tbl, rc |-> d.rc,
          trace |-> b.trace \o <<"mdb_get", "mdb_del", "mdb_txn_abort">>]
    ELSE
    LET c == mdb_txn_commit(f) IN
    [table |-> IF c = 0 THEN d.table ELSE tbl, rc |-> c,
     trace |-> b.trace \o <<"mdb_get", "mdb_del", "mdb_txn_commit">>]

(***************************************************************************)
(* LMDB::del: begin, get, del of the record found, commit.                 *)
(***************************************************************************)
del(tbl, isValid, key, f) ==
    LET b == txn_begin(isValid, f) IN
    IF b.rc # 0 THEN [table |-> tbl, rc |-> b.rc, trace |-> b.trace]
    ELSE
    LET g == mdb_get(tbl, string2val(key), f) IN
    IF g.rc # 0
    THEN [table |-> tbl, rc |-> g.rc,
          trace |-> b.trace \o <<"mdb_get", "mdb_txn_abort">>]
    ELSE
    LET d == mdb_del(tbl, string2val(key), g.data, f) IN
    IF d.rc # 0
    THEN [table |-> tbl, rc |-> d.rc,
          trace |-> b.trace \o <<"mdb_get", "mdb_del", "mdb_txn_abort">>]
    ELSE
    LET c == mdb_txn_commit(f) IN
    [table |-> IF c = 0 THEN d.table ELSE tbl, rc |-> c,
     trace |-> b.trace \o <<"mdb_get", "mdb_del", "mdb_txn_commit">>]

(***************************************************************************)
(* What a read through key.mv_data as a C string sees.  The key's bytes in *)
(* the page are not NUL-terminated: in a leaf node the data follows the    *)
(* key at once, the value itself when the key has one value, the header of *)
(* the duplicates' sub-page when it has several.  pad stands for the bytes *)
(* after that, which the engine's page layout decides; the read ends at    *)
(* the first NUL.                                                          *)
(***************************************************************************)
KeyMemory(tbl, r, pad) ==
    r.key \o (IF Len(Dups(tbl, r.key)) = 1 THEN r.value ELSE <<>>)
          \o pad \o <<NUL>>

\* the C string at the start of mem: the bytes before its first NUL
RECURSIVE CString(_)
CString(mem) ==
    IF mem = <<>> \/ Head(mem) = NUL THEN <<>>
    ELSE <<Head(mem)>> \o CString(Tail(mem))

\* strncmp(s1, s2, n) == 0 on NUL-terminated memory
RECURSIVE strncmp0(_, _, _)
strncmp0(s1, s2, n) ==
    IF n = 0 THEN TRUE
    ELSE IF Head(s1) # Head(s2) THEN FALSE
    ELSE IF Head(s1) = NUL THEN TRUE
    ELSE strncmp0(Tail(s1), Tail(s2), n - 1)

\* Utils::regex_search(s, r) > 0 for a pattern of literal bytes: the
\* pattern occurs somewhere in s
regex_search(s, pattern) ==
    \E i \in 0..(Len(s) - Len(pattern)) :
        SubSeq(s, i + 1, i + Len(pattern)) = pattern

\* the entries of es added at the back of l, as push_back does
RECURSIVE InsertAll_push_back(_, _)
InsertAll_push_back(es, l) ==
    IF es = <<>> THEN l
    ELSE InsertAll_push_back(Tail(es), Append(l, Head(es)))

\* l->insert(l->begin(), e) for each entry of es in turn
RECURSIVE InsertAll(_, _)
InsertAll(es, l) ==
    IF es = <<>> THEN l ELSE InsertAll(Tail(es), <<Head(es)>> \o l)

\* l->push_back(e) for each entry of es in turn
RECURSIVE PushAll(_, _)
PushAll(es, l) ==
    IF es = <<>> THEN l ELSE PushAll(Tail(es), Append(l, Head(es)))

mdb_cursor_open(f) == IF f = "cursor" THEN EINVAL ELSE MDB_SUCCESS

(***************************************************************************)
(* The records a loop of mdb_cursor_get(MDB_NEXT_DUP) visits from a cursor *)
(* that was only opened: the first call on a cursor that is not positioned *)
(* goes to the first record of the table and overwrites the key argument,  *)
(* the next calls walk the duplicates of that record's key.                *)
(***************************************************************************)
NextDupLoop(tbl, mdb_key) ==
    LET all == CursorOrder(tbl) IN
    IF all = <<>> THEN <<>> ELSE Dups(tbl, all[1].key)

(***************************************************************************)
(* LMDB::resolveSingleMatch: begin read-only, open a cursor (its status is *)
(* not looked at), push back one entry (var, value) per record of the      *)
(* MDB_NEXT_DUP loop, close, abort.  When the cursor could not be opened   *)
(* the loop runs on an indeterminate pointer: u is what that does          *)
(* ("error": the first get fails; "crash": the process ends; "read": it    *)
(* walks some cursor).                                                     *)
(***************************************************************************)
resolveSingleMatch(tbl, isValid, var, l, f, u) ==
    LET b == txn_begin(isValid, f) IN
    IF b.rc # 0
    THEN [l |-> l, rc |-> b.rc, trace |-> b.trace, crashed |-> FALSE]
    ELSE
    LET o == mdb_cursor_open(f)
        found == IF o = 0 \/ u = "read"
                 THEN NextDupLoop(tbl, string2val(var))
                 ELSE <<>>
        es == [i \in 1..Len(found) |->
                  [key |-> var, value |-> found[i].value]]
    IN
    IF o # 0 /\ u = "crash"
    THEN [l |-> l, rc |-> o, crashed |-> TRUE,
          trace |-> b.trace \o <<"mdb_cursor_open", "mdb_cursor_get">>]
    ELSE [l |-> PushAll(es, l), rc |-> MDB_NOTFOUND, crashed |-> FALSE,
          trace |-> b.trace \o <<"mdb_cursor_open", "mdb_cursor_get",
                                 "mdb_cursor_close", "mdb_txn_abort">>]

(***************************************************************************)
(* The test of resolveMultiMatches on one record: every record when the    *)
(* name is empty, else strncmp of the name with the key's memory over the  *)
(* name's length.                                                          *)
(***************************************************************************)
MultiMatch(tbl, var, r, pad) ==
    \/ Len(var) = 0
    \/ strncmp0(var \o <<NUL>>, KeyMemory(tbl, r, pad), Len(var))

\* resolveMultiMatches walking with MDB_NEXT_NODUP: one record per key
resolveMultiMatches_nodup(tbl, isValid, var, l, pad, f) ==
    LET b == txn_begin(isValid, f) IN
    IF b.rc # 0 THEN [l |-> l, rc |-> b.rc, trace |-> b.trace]
    ELSE
    LET o == mdb_cursor_open(f) IN
    IF o # 0
    THEN [l |-> l, rc |-> o,
          trace |-> b.trace \o <<"mdb_cursor_open", "mdb_txn_abort">>]
    ELSE
    LET hit(r) == /\ MultiMatch(tbl, var, r, pad)
                  /\ r = Dups(tbl, r.key)[1]
    IN
    [l |-> InsertAll(SelectSeq(CursorOrder(tbl), hit), l),
     rc |-> MDB_NOTFOUND,
     trace |-> b.trace \o <<"mdb_cursor_open", "mdb_cursor_get",
                            "mdb_cursor_close", "mdb_txn_abort">>]

(***************************************************************************)
(* LMDB::resolveMultiMatches: begin read-only, open a cursor, walk the     *)
(* whole table with MDB_NEXT and insert an entry (key, value) at the front *)
(* of l for each record that passes the test, close, abort.                *)
(***************************************************************************)
resolveMultiMatches(tbl, isValid, var, l, pad, f) ==
    LET b == txn_begin(isValid, f) IN
    IF b.rc # 0 THEN [l |-> l, rc |-> b.rc, trace |-> b.trace]
    ELSE
    LET o == mdb_cursor_open(f) IN
    IF o # 0
    THEN [l |-> l, rc |-> o,
          trace |-> b.trace \o <<"mdb_cursor_open", "mdb_txn_abort">>]
    ELSE
    LET hit(r) == MultiMatch(tbl, var, r, pad) IN
    [l |-> InsertAll(SelectSeq(CursorOrder(tbl), hit), l),
     rc |-> MDB_NOTFOUND,
     trace |-> b.trace \o <<"mdb_cursor_open", "mdb_cursor_get",
                            "mdb_cursor_close", "mdb_txn_abort">>]

(***************************************************************************)
(* The test of resolveRegularExpression on one record: the pattern is      *)
(* searched in the C string at key.mv_data, and the exclusions are asked   *)
(* about the key with its size.                                            *)
(***************************************************************************)
RegexMatch(tbl, var, r, pad, omit) ==
    /\ regex_search(CString(KeyMemory(tbl, r, pad)), var)
    /\ r.key \notin omit

(***************************************************************************)
(* LMDB::resolveRegularExpression: as resolveMultiMatches, with the regex  *)
(* test; omit is the set of keys ke.toOmit() is true of.                   *)
(***************************************************************************)
resolveRegularExpression(tbl, isValid, var, l, pad, omit, f) ==
    LET b == txn_begin(isValid, f) IN
    IF b.rc # 0 THEN [l |-> l, rc |-> b.rc, trace |-> b.trace]
    ELSE
    LET o == mdb_cursor_open(f) IN
    IF o # 0
    THEN [l |-> l, rc |-> o,
          trace |-> b.trace \o <<"mdb_cursor_open", "mdb_txn_abort">>]
    ELSE
    LET hit(r) == RegexMatch(tbl, var, r, pad, omit) IN
    [l |-> InsertAll(SelectSeq(CursorOrder(tbl), hit), l),
     rc |-> MDB_NOTFOUND,
     trace |-> b.trace \o <<"mdb_cursor_open", "mdb_cursor_get",
                            "mdb_cursor_close", "mdb_txn_abort">>]

(***************************************************************************)
(* MDBEnvProvider::MDBEnvProvider: the environment is valid when           *)
(* mdb_env_open succeeded.                                                 *)
(***************************************************************************)
MDBEnvProvider(rc) == rc = 0

(***************************************************************************)
(* The inputs of the operations.                                           *)
(***************************************************************************)
\* the engine step made to fail, per operation
StoreFails == {"none", "begin", "put", "commit"}
ReplaceFails == {"none", "begin", "get", "del", "put", "commit"}
DelFails == {"none", "begin", "get", "del", "commit"}
GetFails == {"none", "begin", "get"}
ScanFails == {"none", "begin", "cursor"}
\* what a loop on a cursor that was never opened does
Indeterminate == {"error", "crash", "read"}
\* the bytes that follow a record's key and data in its page
Pads == {<<NUL>>, <<1>>, <<2>>}
\* names given to resolveMultiMatches: empty, keys, and strings no key has
Prefixes == {<<>>} \cup Keys \cup {<<1, 1>>, <<2>>}
\* patterns of literal bytes given to resolveRegularExpression
Patterns == {<<1>>, <<2>>, <<1, 2>>}
\* the key sets ke.toOmit() may stand for
Exclusions == {{}} \cup {{k} : k \in Keys}
\* an entry the caller's list may hold before a resolve call
Sentinel == [key |-> <<>>, value |-> <<>>]
Lists == {<<>>, <<Sentinel>>}

WriteOps == {"store", "storeOrUpdateFirst", "updateFirst", "del"}

(***************************************************************************)
(* History of the last call: its name, inputs, status, results and engine  *)
(* trace; pre is the number of values its key held before it; chain counts *)
(* the committed storeOrUpdateFirst calls on its key, with no failed step, *)
(* that end with it (up to two); after describes, for resolveFirst and     *)
(* resolveSingleMatch, the call before when that was a write on the same   *)
(* key with no failed step.                                                *)
(***************************************************************************)
NoAfter == [op |-> "none", value |-> <<>>, pre |-> 0, committed |-> FALSE, chain |-> 0]

NoCall ==
    [op |-> "none", key |-> <<>>, value |-> <<>>, fail |-> "none",
     rc |-> MDB_SUCCESS, ret |-> <<>>, ok |-> FALSE, l0 |-> <<>>, l |-> <<>>,
     trace |-> <<>>, pre |-> 0, chain |-> 0, pad |-> <<>>, omit |-> {},
     crashed |-> FALSE, after |-> NoAfter]

\* a write call committed: its last engine call is a commit that succeeded
Committed(c) ==
    /\ c.trace # <<>>
    /\ c.trace[Len(c.trace)] = "mdb_txn_commit"
    /\ c.rc = 0

After(key) ==
    IF last.op \in WriteOps /\ last.key = key /\ last.fail = "none"
    THEN [op |-> last.op, value |-> last.value, pre |-> last.pre,
          committed |-> Committed(last), chain |-> last.chain]
    ELSE NoAfter

Chain(key, r, f) ==
    IF ~Committed(r) \/ f # "none" THEN 0
    ELSE IF last.op = "storeOrUpdateFirst" /\ last.key = key /\ last.chain > 0
    THEN 2
    ELSE 1

(***************************************************************************)
(* Callers that run one call each at the same time, every call in a        *)
(* transaction of its own, engine call by engine call: two that replace    *)
(* and one that resolves.  calls holds each caller's call: its arguments,  *)
(* the place pc it has reached, the table view its transaction works on    *)
(* (the working copy of a read-write transaction, the snapshot of a        *)
(* read-only one), the record data its lookup found, and its results ret   *)
(* and l.  at (the committed table when the transaction began), seen (the  *)
(* commits made until then) and overlap (another writer was waiting for    *)
(* the writer lock then) are history.  commits lists the callers in the    *)
(* order of their commits.                                                 *)
(***************************************************************************)
Writers == {"a", "b"}
Readers == {"r"}
Callers == Writers \cup Readers

NoTxn ==
    [op |-> "none", key |-> <<>>, value |-> <<>>, pc |-> "idle",
     rdonly |-> FALSE, view |-> {}, data |-> string2val(<<>>),
     ret |-> <<>>, l |-> <<>>, at |-> {}, seen |-> 0, overlap |-> FALSE]

Init ==
    /\ valid \in {MDBEnvProvider(rc) : rc \in {MDB_SUCCESS, EACCES}}
    /\ isOpen = FALSE
    /\ table = {}
    /\ last = NoCall
    /\ calls = [c \in Callers |-> NoTxn]
    /\ commits = <<>>

(***************************************************************************)
(* One action per operation: the whole call, in its own transaction.  The  *)
(* three calls that take a value are given the set V their value is drawn  *)
(* from.                                                                   *)
(***************************************************************************)
StoreOf(V) ==
    \E key \in Keys, value \in V, f \in StoreFails :
        LET r == store(table, valid, key, value, f) IN
        /\ Cardinality(r.table) <= MaxRecords
        /\ table' = r.table
        /\ last' = [NoCall EXCEPT !.op = "store", !.key = key,
                        !.value = value, !.fail = f, !.rc = r.rc,
                        !.trace = r.trace, !.pre = Len(Dups(table, key))]
        /\ isOpen' = TRUE
        /\ UNCHANGED <<valid, calls, commits>>

StoreOrUpdateFirstOf(V) ==
    \E key \in Keys, value \in V, f \in ReplaceFails :
        LET r == storeOrUpdateFirst(table, valid, key, value, f) IN
        /\ Cardinality(r.table) <= MaxRecords
        /\ table' = r.table
        /\ last' = [NoCall EXCEPT !.op = "storeOrUpdateFirst", !.key = key,
                        !.value = value, !.fail = f, !.rc = r.rc,
                        !.ok = r.ret, !.trace = r.trace,
                        !.pre = Len(Dups(table, key)),
                        !.chain = Chain(key, r, f)]
        /\ isOpen' = TRUE
        /\ UNCHANGED <<valid, calls, commits>>

UpdateFirstOf(V) ==
    \E key \in Keys, value \in V, f \in ReplaceFails :
        LET r == updateFirst(table, valid, key, value, f) IN
        /\ Cardinality(r.table) <= MaxRecords
        /\ table' = r.table
        /\ last' = [NoCall EXCEPT !.op = "updateFirst", !.key = key,
                        !.value = value, !.fail = f, !.rc = r.rc,
                        !.ok = r.ret, !.trace = r.trace,
                        !.pre = Len(Dups(table, key))]
        /\ isOpen' = TRUE
        /\ UNCHANGED <<valid, calls, commits>>

\* the three calls with the values of the model
Store == StoreOf(Values)

StoreOrUpdateFirst == StoreOrUpdateFirstOf(Values)

UpdateFirst == UpdateFirstOf(Values)

Del ==
    \E key \in Keys, f \in DelFails :
        LET r == del(table, valid, key, f) IN
        /\ table' = r.table
        /\ last' = [NoCall EXCEPT !.op = "del", !.key = key, !.fail = f,
                        !.rc = r.rc, !.trace = r.trace,
                        !.pre = Len(Dups(table, key))]
        /\ isOpen' = TRUE
        /\ UNCHANGED <<valid, calls, commits>>

ResolveFirst ==
    \E var \in Keys, f \in GetFails :
        LET r == resolveFirst(table, valid, var, f) IN
        /\ last' = [NoCall EXCEPT !.op = "resolveFirst", !.key = var,
                        !.fail = f, !.rc = r.rc, !.ret = r.ret,
                        !.trace = r.trace, !.pre = Len(Dups(table, var)),
                        !.after = After(var)]
        /\ isOpen' = TRUE
        /\ UNCHANGED <<valid, table, calls, commits>>

ResolveSingleMatch ==
    \E var \in Keys, l \in Lists, f \in ScanFails, u \in Indeterminate :
        LET r == resolveSingleMatch(table, valid, var, l, f, u) IN
        /\ f # "cursor" => u = "error"
        /\ last' = [NoCall EXCEPT !.op = "resolveSingleMatch", !.key = var,
                        !.fail = f, !.rc = r.rc, !.l0 = l, !.l = r.l,
                        !.trace = r.trace, !.crashed = r.crashed,
                        !.pre = Len(Dups(table, var)),
                        !.after = After(var)]
        /\ isOpen' = TRUE
        /\ UNCHANGED <<valid, table, calls, commits>>

ResolveMultiMatches ==
    \E var \in Prefixes, l \in Lists, pad \in Pads, f \in ScanFails :
        LET r == resolveMultiMatches(table, valid, var, l, pad, f) IN
        /\ f # "none" => pad = <<NUL>>
        /\ last' = [NoCall EXCEPT !.op = "resolveMultiMatches", !.key = var,
                        !.fail = f, !.rc = r.rc, !.l0 = l, !.l = r.l,
                        !.trace = r.trace, !.pad = pad]
        /\ isOpen' = TRUE
        /\ UNCHANGED <<valid, table, calls, commits>>

ResolveRegularExpression ==
    \E var \in Patterns, l \in Lists, pad \in Pads, omit \in Exclusions,
       f \in ScanFails :
        LET r == resolveRegularExpression(table, valid, var, l, pad, omit, f)
        IN
        /\ f # "none" => pad = <<NUL>>
        /\ last' = [NoCall EXCEPT !.op = "resolveRegularExpression",
                        !.key = var, !.fail = f, !.rc = r.rc, !.l0 = l,
                        !.l = r.l, !.trace = r.trace, !.pad = pad,
                        !.omit = omit]
        /\ isOpen' = TRUE
        /\ UNCHANGED <<valid, table, calls, commits>>

\* the writes and the two lookups of one key
Next ==
    \/ Store
    \/ StoreOrUpdateFirst
    \/ UpdateFirst
    \/ Del
    \/ ResolveFirst
    \/ ResolveSingleMatch

Spec == Init /\ [][Next]_vars

\* the two scans of the whole table, on every table store and del build
NextScan ==
    \/ Store
    \/ Del
    \/ ResolveMultiMatches
    \/ ResolveRegularExpression

SpecScan == Init /\ [][NextScan]_vars

\* every operation, in a process whose environment failed to open
InitInvalid ==
    /\ valid = MDBEnvProvider(EACCES)
    /\ isOpen = FALSE
    /\ table = {}
    /\ last = NoCall
    /\ calls = [c \in Callers |-> NoTxn]
    /\ commits = <<>>

NextAll ==
    \/ Next
    \/ ResolveMultiMatches
    \/ ResolveRegularExpression

SpecInvalid == InitInvalid /\ [][NextAll]_vars

\* every operation, whether the environment opened or not
SpecAll == Init /\ [][NextAll]_vars

\* the writes alone, with one value more than a key can hold with the two
\* others
NextDups ==
    \/ StoreOf(MoreValues)
    \/ StoreOrUpdateFirstOf(MoreValues)
    \/ UpdateFirstOf(MoreValues)
    \/ Del

SpecDups == Init /\ [][NextDups]_vars

(***************************************************************************)
(* The calls of the callers, one engine call per step.                     *)
(***************************************************************************)
\* c is inside a read-write transaction
InWriteTxn(cs, c) ==
    ~cs[c].rdonly /\ cs[c].pc \notin {"idle", "txn_begin", "done"}

\* mdb_txn_begin on an environment opened without the lock turned off
mdb_txn_begin_ready_nolock(rdonly, cs, c) == TRUE

\* mdb_txn_begin returns at once for MDB_RDONLY; with flags 0 it waits until
\* no other read-write transaction of the environment is live
mdb_txn_begin_ready(rdonly, cs, c) ==
    rdonly \/ \A d \in Callers \ {c} : ~InWriteTxn(cs, d)

\* a read-only transaction that reads the last committed table at each read
TxnView_latest(c) == IF calls[c].rdonly THEN table ELSE calls[c].view

\* what the engine calls of c's transaction read: the snapshot taken when
\* it began, with, for a read-write transaction, its own changes
TxnView(c) == calls[c].view

\* the operation is called: the caller enters txn_begin
Call(c) ==
    /\ calls[c].pc = "idle"
    /\ \/ /\ c \in Writers
          /\ \E op \in {"storeOrUpdateFirst", "updateFirst"},
                key \in Keys, value \in Values :
                calls' = [calls EXCEPT ![c] =
                             [NoTxn EXCEPT !.op = op, !.key = key,
                                 !.value = value, !.pc = "txn_begin"]]
       \/ /\ c \in Readers
          /\ \E key \in Keys :
                calls' = [calls EXCEPT ![c] =
                             [NoTxn EXCEPT !.op = "resolveFirst",
                                 !.key = key, !.rdonly = TRUE,
                                 !.pc = "txn_begin"]]
       \/ /\ c \in Readers
          /\ calls' = [calls EXCEPT ![c] =
                          [NoTxn EXCEPT !.op = "resolveMultiMatches",
                              !.rdonly = TRUE, !.pc = "txn_begin"]]
    /\ UNCHANGED <<valid, isOpen, table, last, commits>>

\* txn_begin: the transaction begins on the committed table
TxnBegin(c) ==
    /\ calls[c].pc = "txn_begin"
    /\ txn_begin(valid, "none").rc = 0
    /\ mdb_txn_begin_ready(calls[c].rdonly, calls, c)
    /\ calls' = [calls EXCEPT
                   ![c].pc = IF calls[c].op = "resolveMultiMatches"
                             THEN "mdb_cursor_open" ELSE "mdb_get",
                   ![c].view = table,
                   ![c].at = table,
                   ![c].seen = Len(commits),
                   ![c].overlap = \E d \in Writers \ {c} :
                                     calls[d].pc = "txn_begin"]
    /\ isOpen' = TRUE
    /\ UNCHANGED <<valid, table, last, commits>>

\* mdb_get and what each operation does with its status
Get(c) ==
    /\ calls[c].pc = "mdb_get"
    /\ LET g == mdb_get(TxnView(c), string2val(calls[c].key), "none") IN
       calls' = [calls EXCEPT
                   ![c].data = g.data,
                   ![c].ret = IF calls[c].op = "resolveFirst" /\ g.rc = 0
                              THEN <<val2string(g.data)>> ELSE <<>>,
                   ![c].pc =
                       CASE calls[c].op = "resolveFirst" -> "mdb_txn_abort"
                         [] calls[c].op = "storeOrUpdateFirst" ->
                               IF g.rc = 0 THEN "mdb_del" ELSE "mdb_put"
                         [] OTHER ->
                               IF g.rc = 0 THEN "mdb_del"
                               ELSE "mdb_txn_abort"]
    /\ UNCHANGED <<valid, isOpen, table, last, commits>>

\* mdb_del of the record the lookup found
DelFound(c) ==
    /\ calls[c].pc = "mdb_del"
    /\ LET d == mdb_del(TxnView(c), string2val(calls[c].key),
                        calls[c].data, "none")
       IN calls' = [calls EXCEPT ![c].view = d.table, ![c].pc = "mdb_put"]
    /\ UNCHANGED <<valid, isOpen, table, last, commits>>

\* mdb_put of the new record
Put(c) ==
    /\ calls[c].pc = "mdb_put"
    /\ LET p == mdb_put(TxnView(c), string2val(calls[c].key),
                        string2val(calls[c].value), "none")
       IN calls' = [calls EXCEPT ![c].view = p.table,
                                 ![c].pc = "mdb_txn_commit"]
    /\ UNCHANGED <<valid, isOpen, table, last, commits>>

\* mdb_txn_commit: the working copy becomes the committed table
Commit(c) ==
    /\ calls[c].pc = "mdb_txn_commit"
    /\ table' = TxnView(c)
    /\ commits' = Append(commits, c)
    /\ calls' = [calls EXCEPT ![c].pc = "done"]
    /\ UNCHANGED <<valid, isOpen, last>>

\* mdb_txn_abort, and the return
Abort(c) ==
    /\ calls[c].pc = "mdb_txn_abort"
    /\ calls' = [calls EXCEPT ![c].pc = "done"]
    /\ UNCHANGED <<valid, isOpen, table, last, commits>>

CursorOpen(c) ==
    /\ calls[c].pc = "mdb_cursor_open"
    /\ mdb_cursor_open("none") = 0
    /\ calls' = [calls EXCEPT ![c].pc = "mdb_cursor_get"]
    /\ UNCHANGED <<valid, isOpen, table, last, commits>>

\* mdb_cursor_get(MDB_NEXT): the record after the one read last, put at the
\* front of the list; the loop ends when there is none
CursorGet(c) ==
    /\ calls[c].pc = "mdb_cursor_get"
    /\ LET after(r) == calls[c].l = <<>> \/ RecordLess(calls[c].l[1], r)
           rest == SelectSeq(CursorOrder(TxnView(c)), after)
       IN calls' = [calls EXCEPT
                      ![c].l = IF rest = <<>> THEN @
                               ELSE InsertAll(<<rest[1]>>, @),
                      ![c].pc = IF rest = <<>> THEN "mdb_cursor_close"
                                ELSE @]
    /\ UNCHANGED <<valid, isOpen, table, last, commits>>

CursorClose(c) ==
    /\ calls[c].pc = "mdb_cursor_close"
    /\ calls' = [calls EXCEPT ![c].pc = "mdb_txn_abort"]
    /\ UNCHANGED <<valid, isOpen, table, last, commits>>

\* the environment opened
InitConc ==
    /\ valid = MDBEnvProvider(MDB_SUCCESS)
    /\ isOpen = FALSE
    /\ table = {}
    /\ last = NoCall
    /\ calls = [c \in Callers |-> NoTxn]
    /\ commits = <<>>

NextConc ==
    \E c \in Callers :
        \/ Call(c)
        \/ TxnBegin(c)
        \/ Get(c)
        \/ DelFound(c)
        \/ Put(c)
        \/ Commit(c)
        \/ Abort(c)
        \/ CursorOpen(c)
        \/ CursorGet(c)
        \/ CursorClose(c)

SpecConc == InitConc /\ [][NextConc]_vars

(***************************************************************************)
(* Helpers of the properties.                                              *)
(***************************************************************************)
Range(seq) == {seq[i] : i \in DOMAIN seq}

\* the entries a push_back loop added to the caller's list
AddedBack(c) == SubSeq(c.l, Len(c.l0) + 1, Len(c.l))

\* the entries an insert-at-begin loop added to the caller's list
AddedFront(c) == SubSeq(c.l, 1, Len(c.l) - Len(c.l0))

\* p is a byte-for-byte prefix of k
IsPrefix(p, k) == Len(p) <= Len(k) /\ SubSeq(k, 1, Len(p)) = p

\* the values stored under k, in engine order
ValuesOf(tbl, k) == [i \in 1..Len(Dups(tbl, k)) |-> Dups(tbl, k)[i].value]

\* the number of calls of engine function fn in a trace
Count(trace, fn) == Cardinality({i \in DOMAIN trace : trace[i] = fn})

\* the call's transaction was begun: mdb_txn_begin was called and succeeded
Begun(c) == "mdb_txn_begin" \in Range(c.trace) /\ c.fail # "begin"

\* the engine call that input f makes fail
FailedCall(f) ==
    CASE f = "begin" -> "mdb_txn_begin"
      [] f = "get" -> "mdb_get"
      [] f = "del" -> "mdb_del"
      [] f = "put" -> "mdb_put"
      [] f = "commit" -> "mdb_txn_commit"
      [] f = "cursor" -> "mdb_cursor_open"
      [] OTHER -> "none"

\* an engine step of the call failed: the call made to fail was reached
StepFailed(c) == c.fail # "none" /\ FailedCall(c.fail) \in Range(c.trace)

\* the call's cursor was opened: mdb_cursor_open was called and succeeded
CursorOpened(c) == "mdb_cursor_open" \in Range(c.trace) /\ c.fail # "cursor"

\* the operations that walk a cursor
CursorOps ==
    {"resolveSingleMatch", "resolveMultiMatches", "resolveRegularExpression"}

\* in a trace, every call of fn comes before every call of gn
Before(trace, fn, gn) ==
    \A i, j \in DOMAIN trace : (trace[i] = fn /\ trace[j] = gn) => i < j

\* the number of times the call ended a transaction
Ended(c) == Count(c.trace, "mdb_txn_commit") + Count(c.trace, "mdb_txn_abort")

(***************************************************************************)
(* C1.  For a key with no record, a store(k, v) that commits followed by   *)
(* a resolveFirst(k) whose begin and get succeed returns v.                *)
(***************************************************************************)
C1_StoreThenResolveFirst ==
    ( /\ last.op = "resolveFirst"
      /\ last.fail = "none"
      /\ last.after.op = "store"
      /\ last.after.committed
      /\ last.after.pre = 0 )
    => last.ret = <<last.after.value>>

\* C1 witness: a resolveFirst that returned the value a committed store had
\* just put under a key with no record, in a table with other records
C1_Witness ==
    /\ last.op = "resolveFirst"
    /\ last.fail = "none"
    /\ last.after.op = "store"
    /\ last.after.committed
    /\ last.after.pre = 0
    /\ last.ret = <<last.after.value>>
    /\ Cardinality(table) > 1

(***************************************************************************)
(* C2.  After storeOrUpdateFirst(k, v1) then storeOrUpdateFirst(k, v2),    *)
(* resolveFirst(k) returns v2 and resolveSingleMatch(k) appends exactly    *)
(* one entry.  The claim says so from any reachable table; it is stated    *)
(* here for the tables in which k holds at most one value before the       *)
(* calls, where the two replaces leave exactly one value under k.          *)
(***************************************************************************)
C2_ReplaceTwice ==
    /\ ( /\ last.op = "resolveFirst"
         /\ last.fail = "none"
         /\ last.after.op = "storeOrUpdateFirst"
         /\ last.after.chain = 2
         /\ last.after.pre <= 1 )
       => last.ret = <<last.after.value>>
    /\ ( /\ last.op = "resolveSingleMatch"
         /\ last.fail = "none"
         /\ last.after.op = "storeOrUpdateFirst"
         /\ last.after.chain = 2
         /\ last.after.pre <= 1 )
       => Len(AddedBack(last)) = 1

(***************************************************************************)
(* C3 as stated.  From any reachable table, after a del(k) that completes, *)
(* resolveFirst(k) returns absent.                                         *)
(***************************************************************************)
C3_DelThenAbsent_AnyTable ==
    ( /\ last.op = "resolveFirst"
      /\ last.after.op = "del" )
    => last.ret = <<>>

(***************************************************************************)
(* C3 amended.  For a key that holds at most one value, after a del(k)     *)
(* that completes, resolveFirst(k) returns absent.                         *)
(***************************************************************************)
C3_DelThenAbsent ==
    ( /\ last.op = "resolveFirst"
      /\ last.after.op = "del"
      /\ last.after.pre <= 1 )
    => last.ret = <<>>

\* C3 witness: a resolveFirst that returned null after a committed del of
\* the only value of its key, other records being left
C3_Witness ==
    /\ last.op = "resolveFirst"
    /\ last.fail = "none"
    /\ last.after.op = "del"
    /\ last.after.pre = 1
    /\ last.after.committed
    /\ last.ret = <<>>
    /\ table # {}

(***************************************************************************)
(* C4.  resolveSingleMatch(k) appends exactly the values stored under k,   *)
(* in engine order, none of another key, and nothing for an absent k.      *)
(***************************************************************************)
C4_SingleMatchOwnValues ==
    ( /\ last.op = "resolveSingleMatch"
      /\ last.fail = "none" )
    => AddedBack(last) =
          [i \in 1..Len(ValuesOf(table, last.key)) |->
              [key |-> last.key, value |-> ValuesOf(table, last.key)[i]]]

(***************************************************************************)
(* C5.  For a non-empty p, resolveMultiMatches(p) returns exactly the      *)
(* records whose key begins with p byte for byte, each once.  Stated for   *)
(* the calls in which a NUL byte follows each record in its page, so that  *)
(* only the record's own bytes decide.                                     *)
(***************************************************************************)
C5_PrefixExact ==
    ( /\ last.op = "resolveMultiMatches"
      /\ last.fail = "none"
      /\ last.pad = <<NUL>>
      /\ last.key # <<>> )
    => /\ Range(AddedFront(last)) = {r \in table : IsPrefix(last.key, r.key)}
       /\ Len(AddedFront(last)) = Cardinality(Range(AddedFront(last)))

(***************************************************************************)
(* C6.  resolveMultiMatches("") whose begin and cursor open succeed adds   *)
(* one entry per stored record, duplicates of a key included, each exactly *)
(* once.                                                                   *)
(***************************************************************************)
C6_EmptyPrefixAll ==
    ( /\ last.op = "resolveMultiMatches"
      /\ last.fail = "none"
      /\ last.key = <<>> )
    => /\ Range(AddedFront(last)) = table
       /\ Len(AddedFront(last)) = Cardinality(table)
       /\ SubSeq(last.l, Len(last.l) - Len(last.l0) + 1, Len(last.l)) = last.l0

\* C6 witness: a scan with the empty name of a full table in which a key
\* has duplicates
C6_Witness ==
    /\ last.op = "resolveMultiMatches"
    /\ last.fail = "none"
    /\ last.key = <<>>
    /\ Len(AddedFront(last)) = MaxRecords
    /\ \E k \in Keys : Len(Dups(table, k)) > 1

(***************************************************************************)
(* C7.  resolveRegularExpression returns the records whose key matches the *)
(* pattern and is not excluded; a record whose key is excluded, or does    *)
(* not match, never appears.  Stated for the calls in which a NUL byte     *)
(* follows each record in its page, so that only the record's own bytes    *)
(* decide.                                                                 *)
(***************************************************************************)
C7_RegexKeysOnly ==
    ( /\ last.op = "resolveRegularExpression"
      /\ last.fail = "none"
      /\ last.pad = <<NUL>> )
    => Range(AddedFront(last)) =
          {r \in table : regex_search(r.key, last.key) /\ r.key \notin last.omit}

(***************************************************************************)
(* C8.  When the environment failed to open, no operation starts a         *)
(* transaction: resolveFirst returns null, the list operations add         *)
(* nothing, store and del change nothing, and storeOrUpdateFirst and       *)
(* updateFirst return false.                                               *)
(***************************************************************************)
C8_InvalidEnvFails ==
    (~valid /\ last.op # "none")
    => /\ "mdb_txn_begin" \notin Range(last.trace)
       /\ last.ret = <<>>
       /\ last.l = last.l0
       /\ table = {}
       /\ last.op \in {"storeOrUpdateFirst", "updateFirst"} => ~last.ok

(***************************************************************************)
(* C9.  storeOrUpdateFirst returns true if and only if its transaction     *)
(* committed with the new record inserted.                                 *)
(***************************************************************************)
C9_TrueIffCommitted ==
    last.op = "storeOrUpdateFirst"
    => (last.ok <=> ( /\ Committed(last)
                      /\ [key |-> last.key, value |-> last.value] \in table ))

(***************************************************************************)
(* C10.  updateFirst on a key with no record returns false and leaves the  *)
(* table as it was; on a key with a record, when no engine step fails, it  *)
(* returns true.                                                           *)
(***************************************************************************)
C10_UpdateFirst ==
    [][ last'.op = "updateFirst"
        => /\ last'.pre = 0 => (~last'.ok /\ table' = table)
           /\ (last'.pre > 0 /\ last'.fail = "none") => last'.ok ]_vars

\* C10 witness: an updateFirst that returned false on a key with no record,
\* in a table that holds records of another key
C10_Witness ==
    /\ last.op = "updateFirst"
    /\ valid
    /\ last.fail = "none"
    /\ last.pre = 0
    /\ ~last.ok
    /\ table # {}
    /\ Dups(table, last.key) = <<>>

(***************************************************************************)
(* C11.  In every operation that returns, on every path: a transaction     *)
(* that was begun is ended exactly once, by a commit or by an abort and    *)
(* never by both, and that is the last engine call before the return; no   *)
(* transaction is ended when none was begun.                               *)
(***************************************************************************)
C11_TxnEndedOnce ==
    (last.op # "none" /\ ~last.crashed)
    => /\ Begun(last)
          => /\ Ended(last) = 1
             /\ last.trace[Len(last.trace)]
                    \in {"mdb_txn_commit", "mdb_txn_abort"}
             /\ ~( /\ "mdb_txn_commit" \in Range(last.trace)
                   /\ "mdb_txn_abort" \in Range(last.trace) )
       /\ ~Begun(last) => Ended(last) = 0

\* C11 witness: an updateFirst whose insert failed after the lookup and the
\* delete succeeded, and which ended its transaction by one abort
C11_Witness ==
    /\ last.op = "updateFirst"
    /\ last.fail = "put"
    /\ last.pre > 0
    /\ Begun(last)
    /\ Ended(last) = 1
    /\ Count(last.trace, "mdb_txn_abort") = 1

(***************************************************************************)
(* C12 as stated.  store never removes a record, and every store that      *)
(* commits adds one record under its key, whatever the value: n such       *)
(* calls, one after the other, leave n more records under the key.         *)
(***************************************************************************)
C12_StoreAddsOne_AnyValue ==
    [][ last'.op = "store"
        => /\ table \subseteq table'
           /\ Committed(last')
              => Len(Dups(table', last'.key))
                    = Len(Dups(table, last'.key)) + 1 ]_vars

(***************************************************************************)
(* C12 amended.  store never removes a record, and every store that        *)
(* commits a value its key does not hold yet adds that one record and      *)
(* nothing else: n such calls leave n more records under the key.          *)
(***************************************************************************)
C12_StoreAddsOne ==
    [][ last'.op = "store"
        => /\ table \subseteq table'
           /\ ( /\ Committed(last')
                /\ [key |-> last'.key, value |-> last'.value] \notin table )
              => /\ table' = table
                       \cup {[key |-> last'.key, value |-> last'.value]}
                 /\ Len(Dups(table', last'.key))
                       = Len(Dups(table, last'.key)) + 1 ]_vars

\* C12 witness: a committed store that added a second value to a key which
\* held one
C12_Witness ==
    /\ last.op = "store"
    /\ Committed(last)
    /\ last.pre = 1
    /\ Len(Dups(table, last.key)) = 2
    /\ [key |-> last.key, value |-> last.value] \in table

(***************************************************************************)
(* C14.  When an engine step of store, storeOrUpdateFirst, updateFirst or  *)
(* del fails (begin, a lookup that fails with another error than           *)
(* not-found, delete, insert or commit), the table the call leaves is the  *)
(* table it found.                                                         *)
(***************************************************************************)
C14_FailedStepNoChange ==
    [][ (last'.op \in WriteOps /\ StepFailed(last'))
        => table' = table ]_vars

(***************************************************************************)
(* C15.  del of a key that holds no record changes no record; when its     *)
(* lookup answers not-found it makes no delete and no commit and ends its  *)
(* transaction by one abort.                                               *)
(***************************************************************************)
C15_DelAbsentNoOp ==
    [][ (last'.op = "del" /\ last'.pre = 0)
        => /\ table' = table
           /\ last'.rc = MDB_NOTFOUND
              => last'.trace = <<"mdb_txn_begin", "mdb_get",
                                 "mdb_txn_abort">> ]_vars

\* C15 witness: a del whose lookup answered not-found, for a key with no
\* record in a table that holds records of the other key
C15_Witness ==
    /\ last.op = "del"
    /\ last.pre = 0
    /\ last.rc = MDB_NOTFOUND
    /\ Ended(last) = 1
    /\ table # {}

(***************************************************************************)
(* C16.  On a key that holds several values, a del, a storeOrUpdateFirst   *)
(* or an updateFirst with no failing step removes the first value of the   *)
(* key's duplicate set and no other record, of this key or of another;     *)
(* the two replaces then add the record (k, v).                            *)
(***************************************************************************)
C16_RemovesFirstOnly ==
    [][ ( /\ last'.op \in {"del", "storeOrUpdateFirst", "updateFirst"}
          /\ last'.fail = "none"
          /\ last'.pre >= 2 )
        => LET first == Dups(table, last'.key)[1]
               new == [key |-> last'.key, value |-> last'.value]
           IN /\ last'.op = "del" => table' = table \ {first}
              /\ last'.op # "del"
                 => table' = (table \ {first}) \cup {new} ]_vars

\* C16 witness: an updateFirst with a new value on a key that held two
\* values: the second is still there, beside the new one, and the other
\* key has kept its record
C16_Witness ==
    /\ last.op = "updateFirst"
    /\ last.fail = "none"
    /\ last.pre = 2
    /\ last.value = <<3>>
    /\ ValuesOf(table, last.key) = << <<2>>, <<3>> >>
    /\ \E r \in table : r.key # last.key

(***************************************************************************)
(* C17.  The entries a resolveMultiMatches or a resolveRegularExpression   *)
(* adds stand at the front of the list in the reverse of the cursor order  *)
(* (each one before every record the cursor visits earlier), and the       *)
(* entries the list held before the call follow them, unchanged and in     *)
(* their order.                                                            *)
(***************************************************************************)
C17_FrontInsertReversed ==
    last.op \in {"resolveMultiMatches", "resolveRegularExpression"}
    => /\ Len(last.l) >= Len(last.l0)
       /\ last.l = AddedFront(last) \o last.l0
       /\ \A i, j \in DOMAIN AddedFront(last) :
             i < j => RecordLess(AddedFront(last)[j], AddedFront(last)[i])

\* C17 witness: a resolveRegularExpression that put three records, values
\* of both keys among them, before the entry the list held
C17_Witness ==
    /\ last.op = "resolveRegularExpression"
    /\ last.l0 = <<Sentinel>>
    /\ Len(AddedFront(last)) = 3
    /\ last.l[4] = Sentinel
    /\ AddedFront(last)[1].key # AddedFront(last)[3].key

(***************************************************************************)
(* C19.  In the three operations that walk a cursor, on every path: the    *)
(* cursor is read and closed only when it was opened with success; a       *)
(* cursor that was opened is, when the call returns, closed exactly once,  *)
(* after its reads and before the abort of its transaction.                *)
(***************************************************************************)
C19_CursorDiscipline ==
    last.op \in CursorOps
    => /\ ~CursorOpened(last)
          => /\ "mdb_cursor_get" \notin Range(last.trace)
             /\ "mdb_cursor_close" \notin Range(last.trace)
       /\ (CursorOpened(last) /\ ~last.crashed)
          => /\ Count(last.trace, "mdb_cursor_close") = 1
             /\ Before(last.trace, "mdb_cursor_open", "mdb_cursor_get")
             /\ Before(last.trace, "mdb_cursor_get", "mdb_cursor_close")
             /\ Before(last.trace, "mdb_cursor_close", "mdb_txn_abort")

(***************************************************************************)
(* Helpers of the properties of concurrent calls.                          *)
(***************************************************************************)
\* what a lookup of key k answers on table tbl: no value, or the first
FirstOf(tbl, k) ==
    IF Dups(tbl, k) = <<>> THEN <<>> ELSE <<Dups(tbl, k)[1].value>>

\* the callers whose replace of key k was committed among the first n
\* commits
CommittedOn(k, n) ==
    {w \in Range(SubSeq(commits, 1, n)) : calls[w].key = k}

\* the records of a table in the reverse of the cursor order
ReverseOrder(tbl) == InsertAll(CursorOrder(tbl), <<>>)

(***************************************************************************)
(* C13.  Whatever the writers do meanwhile, a resolve call reads the table *)
(* that was committed when its transaction began: resolveFirst returns the *)
(* first value its key held then, resolveMultiMatches the records the      *)
(* table held then; and resolveFirst of a key for which a replace was      *)
(* committed before returns the value of a committed replace of that key,  *)
(* never absent.                                                           *)
(***************************************************************************)
C13_ReadsSnapshot ==
    \A c \in Readers :
        calls[c].pc \in {"mdb_txn_abort", "done"}
        => /\ calls[c].op = "resolveFirst"
              => /\ calls[c].ret = FirstOf(calls[c].at, calls[c].key)
                 /\ CommittedOn(calls[c].key, calls[c].seen) # {}
                    => calls[c].ret
                          \in {<<calls[w].value>> :
                                 w \in CommittedOn(calls[c].key, calls[c].seen)}
           /\ calls[c].op = "resolveMultiMatches"
              => calls[c].l = ReverseOrder(calls[c].at)

\* C13 witness: a resolveFirst that returned the value its key held when
\* its transaction began, a replace of the key by another value having
\* been committed before its lookup
C13_Witness ==
    \E c \in Readers :
        /\ calls[c].op = "resolveFirst"
        /\ calls[c].pc = "done"
        /\ calls[c].ret # <<>>
        /\ calls[c].ret = FirstOf(calls[c].at, calls[c].key)
        /\ calls[c].ret # FirstOf(table, calls[c].key)
        /\ Len(commits) > calls[c].seen

(***************************************************************************)
(* C18.  No two callers are inside a read-write transaction at the same    *)
(* time; and when two storeOrUpdateFirst calls on one key, which held at   *)
(* most one value, have both returned, the key holds exactly one value,    *)
(* that of the call that committed second.                                 *)
(***************************************************************************)
C18_ReplacesSerialized ==
    /\ Cardinality({c \in Callers : InWriteTxn(calls, c)}) <= 1
    /\ ( /\ \A w \in Writers : /\ calls[w].op = "storeOrUpdateFirst"
                               /\ calls[w].pc = "done"
         /\ calls["a"].key = calls["b"].key )
       => /\ Len(commits) = 2
          /\ ValuesOf(table, calls["a"].key) = <<calls[commits[2]].value>>

\* C18 witness: two storeOrUpdateFirst calls of one key with two values
\* have returned, the one that committed first having begun while the
\* other was waiting in txn_begin, and the key holds the second's value
C18_Witness ==
    /\ \A w \in Writers : /\ calls[w].op = "storeOrUpdateFirst"
                          /\ calls[w].pc = "done"
    /\ calls["a"].key = calls["b"].key
    /\ calls["a"].value # calls["b"].value
    /\ Len(commits) = 2
    /\ calls[commits[1]].overlap
    /\ ValuesOf(table, calls["a"].key) = <<calls[commits[2]].value>>

====
